---- MODULE Spec2Model ----
(***************************************************************************)
(* Model of assignment1/lsfr.py: a 10-bit Fibonacci LFSR that is stepped   *)
(* until the register returns to its start state, capturing the first 512  *)
(* feedback bits, followed by an XOR stream encryption and decryption of a *)
(* bit string with a prefix of the captured bits.                          *)
(*                                                                         *)
(* Python integers are unbounded, so the register is a natural number and  *)
(* the bit operators below are the arbitrary-precision ones.  Python       *)
(* strings are sequences of one-character strings.                         *)
(***************************************************************************)
EXTENDS Naturals, Sequences, FiniteSets

VARIABLES start_state, lfsr, period, bitstring, pc,
          plaintext, key, ciphertext, decrypttext, visited

vars == <<start_state, lfsr, period, bitstring, pc,
          plaintext, key, ciphertext, decrypttext, visited>>

----------------------------------------------------------------------------
(* Bounds of the model *)

\* seeds tried are 0..MaxSeed: zero, every 10-bit value, and wider ones
MaxSeed == 1025
\* loop iterations after which a run that has not come back is abandoned
MaxSteps == 1030
\* every bit string of at most this length is tried as a plaintext
MaxLen == 3

(* Constants of the program *)

\* lsfr.py:3   start_state = 0b1000011001
RefSeed == 537
\* lsfr.py:12  lfsr >> 7
TapShift == 7
\* lsfr.py:14  bit << 9
TopBit == 9
\* lsfr.py:18  period < 512
CaptureLimit == 512

----------------------------------------------------------------------------
(* Python's integer operators on naturals *)

RECURSIVE Pow2(_)
Pow2(n) == IF n = 0 THEN 1 ELSE 2 * Pow2(n - 1)

\* a >> n
ShiftRight(a, n) == a \div Pow2(n)

\* a << n
ShiftLeft(a, n) == a * Pow2(n)

RECURSIVE BitXor(_, _)
\* a ^ b
BitXor(a, b) ==
    IF a = 0 THEN b
    ELSE IF b = 0 THEN a
    ELSE (((a % 2) + (b % 2)) % 2) + 2 * BitXor(a \div 2, b \div 2)

RECURSIVE BitAnd(_, _)
\* a & b
BitAnd(a, b) ==
    IF a = 0 \/ b = 0 THEN 0
    ELSE ((a % 2) * (b % 2)) + 2 * BitAnd(a \div 2, b \div 2)

RECURSIVE BitOr(_, _)
\* a | b
BitOr(a, b) ==
    IF a = 0 THEN b
    ELSE IF b = 0 THEN a
    ELSE (IF a % 2 = 1 \/ b % 2 = 1 THEN 1 ELSE 0) + 2 * BitOr(a \div 2, b \div 2)

\* f"{bit}" for an int that is 0 or 1
FormatBit(b) == IF b = 0 THEN <<"0">> ELSE <<"1">>

----------------------------------------------------------------------------
(* The LFSR loop, lsfr.py:9-24 *)

\* FeedbackBit with the second tap one position off: (lfsr ^ (lfsr >> 6)) & 1
FeedbackBit_Tap6(r) == BitAnd(BitXor(r, ShiftRight(r, 6)), 1)

\* line 12: bit = (lfsr ^ (lfsr >> 7)) & 1
FeedbackBit(r) == BitAnd(BitXor(r, ShiftRight(r, TapShift)), 1)

\* NextRegister with the feedback bit placed one position too high: bit << 10
NextRegister_Bit10(r, b) == BitOr(ShiftRight(r, 1), ShiftLeft(b, 10))

\* NextRegister that shifts and forgets to insert the feedback bit
NextRegister_NoFeedback(r, b) == ShiftRight(r, 1)

\* line 14: lfsr = (lfsr >> 1) | (bit << 9)
NextRegister(r, b) == BitOr(ShiftRight(r, 1), ShiftLeft(b, TopBit))

\* Capture with the comparison off by one: period <= 512
Capture_OneMore(bs, n, b) == IF n <= CaptureLimit THEN bs \o FormatBit(b) ELSE bs

\* lines 18-19: if (period < 512): bitstring += f"{bit}"
Capture(bs, n, b) == IF n < CaptureLimit THEN bs \o FormatBit(b) ELSE bs

----------------------------------------------------------------------------
(* The stream cipher, lsfr.py:28-38 *)

\* a Python variable that has not been assigned yet
Unassigned == <<"unassigned">>

\* the outcome of an expression that raised IndexError (string index out of range)
IndexError == <<"IndexError">>

Min(a, b) == IF a < b THEN a ELSE b

\* s[:n]
SlicePrefix(s, n) == SubSeq(s, 1, Min(n, Len(s)))

\* KeyOf with the slice one short: bitstring[:len(plaintext) - 1]
KeyOf_OneShort(bs, data) == SlicePrefix(bs, IF Len(data) = 0 THEN 0 ELSE Len(data) - 1)

\* line 29: key = bitstring[:len(plaintext)]
KeyOf(bs, data) == SlicePrefix(bs, Len(data))

\* XorJoin combining with OR instead of XOR
XorJoin_Or(data, k) ==
    IF Len(k) < Len(data)
    THEN IndexError
    ELSE [i \in 1 .. Len(data) |-> IF data[i] = "1" \/ k[i] = "1" THEN "1" ELSE "0"]

\* XorJoin that stops at the shorter operand instead of raising (zip semantics)
XorJoin_Zip(data, k) ==
    [i \in 1 .. (IF Len(k) < Len(data) THEN Len(k) ELSE Len(data)) |->
        IF data[i] # k[i] THEN "1" ELSE "0"]

\* lines 30 and 31:
\*   ''.join('1' if data[i] != k[i] else '0' for i in range(len(data)))
\* k[i] raises IndexError for the first i >= len(k)
XorJoin(data, k) ==
    IF Len(k) < Len(data)
    THEN IndexError
    ELSE [i \in 1 .. Len(data) |-> IF data[i] # k[i] THEN "1" ELSE "0"]

\* line 28: plaintext = "11101100000110111011010011111010"
RefPlaintext ==
    <<"1","1","1","0","1","1","0","0", "0","0","0","1","1","0","1","1",
      "1","0","1","1","0","1","0","0", "1","1","1","1","1","0","1","0">>

\* every string of '0' and '1' of length n
BitStrings(n) == [1 .. n -> {"0", "1"}]

\* the string of n '1' characters
Ones(n) == [i \in 1 .. n |-> "1"]

\* plaintexts tried at line 28: the script's own, every short bit string, and
\* strings as long as, and one longer than, the captured keystream
Plaintexts ==
    {RefPlaintext}
    \cup UNION {BitStrings(n) : n \in 0 .. MaxLen}
    \cup {Ones(CaptureLimit), Ones(CaptureLimit + 1)}

Seeds == 0 .. MaxSeed

Init ==
    /\ start_state \in Seeds
    /\ lfsr = start_state
    /\ period = 0
    /\ bitstring = <<>>
    /\ pc = "loop"
    /\ plaintext = Unassigned
    /\ key = Unassigned
    /\ ciphertext = Unassigned
    /\ decrypttext = Unassigned
    /\ visited = {}

\* lines 9-24: one iteration of the while loop.  visited is a history
\* variable, the set of register values the loop has produced so far; it is
\* recorded only when track is TRUE.
Loop(track) ==
    /\ pc = "loop"
    /\ period < MaxSteps
    /\ LET bit == FeedbackBit(lfsr)
           nxt == NextRegister(lfsr, bit)
       IN  /\ lfsr' = nxt
           /\ bitstring' = Capture(bitstring, period, bit)
           /\ period' = period + 1
           /\ pc' = IF nxt = start_state THEN "plaintext" ELSE "loop"
           /\ visited' = IF track THEN visited \cup {nxt} ELSE visited
    /\ UNCHANGED <<start_state, plaintext, key, ciphertext, decrypttext>>

\* the loop, for any start state
Step == Loop(FALSE)

\* the loop with its history recorded
StepTracked == Loop(TRUE)

\* line 28
SetPlaintext ==
    /\ pc = "plaintext"
    /\ plaintext' \in Plaintexts
    /\ pc' = "key"
    /\ UNCHANGED <<start_state, lfsr, period, bitstring, key, ciphertext,
                   decrypttext, visited>>

\* line 29
SetKey ==
    /\ pc = "key"
    /\ key' = KeyOf(bitstring, plaintext)
    /\ pc' = "encrypt"
    /\ UNCHANGED <<start_state, lfsr, period, bitstring, plaintext, ciphertext,
                   decrypttext, visited>>

\* line 30
Encrypt ==
    /\ pc = "encrypt"
    /\ LET r == XorJoin(plaintext, key)
       IN  IF r = IndexError
           THEN pc' = "IndexError" /\ UNCHANGED ciphertext
           ELSE pc' = "decrypt" /\ ciphertext' = r
    /\ UNCHANGED <<start_state, lfsr, period, bitstring, plaintext, key,
                   decrypttext, visited>>

\* line 31
Decrypt ==
    /\ pc = "decrypt"
    /\ LET r == XorJoin(ciphertext, key)
       IN  IF r = IndexError
           THEN pc' = "IndexError" /\ UNCHANGED decrypttext
           ELSE pc' = "assert" /\ decrypttext' = r
    /\ UNCHANGED <<start_state, lfsr, period, bitstring, plaintext, key,
                   ciphertext, visited>>

\* line 38: assert(plaintext == decrypttext)
CheckAssert ==
    /\ pc = "assert"
    /\ pc' = IF plaintext = decrypttext THEN "done" ELSE "AssertionError"
    /\ UNCHANGED <<start_state, lfsr, period, bitstring, plaintext, key,
                   ciphertext, decrypttext, visited>>

Next == Step \/ SetPlaintext \/ SetKey \/ Encrypt \/ Decrypt \/ CheckAssert

\* the script run from every start state in Seeds
Spec == Init /\ [][Next]_vars

\* lines 3-7: the script exactly as written, start_state = 0b1000011001
InitRef == Init /\ start_state = RefSeed

NextRef == StepTracked \/ SetPlaintext \/ SetKey \/ Encrypt \/ Decrypt \/ CheckAssert

\* the script run from its own start state, with the register history recorded
SpecRef == InitRef /\ [][NextRef]_vars

----------------------------------------------------------------------------
(* Properties *)

\* bit i of the natural number r
Bit(r, i) == (r \div Pow2(i)) % 2

\* the character '0' or '1' as a number
Digit(c) == IF c = "1" THEN 1 ELSE 0

\* the statements after the loop that have run once pc is one of these
AfterEncrypt == {"IndexError", "decrypt", "assert", "done", "AssertionError"}

\* C1: whenever the decryption has been computed it equals the plaintext, for
\* every plaintext and every keystream prefix at least as long, and the final
\* assertion of the script never fails.
C1_Involution ==
    /\ pc # "AssertionError"
    /\ decrypttext # Unassigned => decrypttext = plaintext
    /\ (pc \in {"assert", "done"} /\ Len(bitstring) >= Len(plaintext))
          => decrypttext # Unassigned

\* C1 witness: a finished run whose ciphertext differs from its plaintext
C1_Witness ==
    /\ pc = "done"
    /\ Len(plaintext) = MaxLen
    /\ ciphertext # plaintext
    /\ decrypttext = plaintext

\* C2: from the reference start state the loop stops with period exactly
\* 1023, the register values produced on the way are pairwise distinct (as
\* many values as steps) and nonzero, and the start state is produced again
\* only by step 1023.
C2_RefPeriod ==
    /\ pc = "loop" => period < 1023
    /\ pc # "loop" => period = 1023
    /\ Cardinality(visited) = period
    /\ 0 \notin visited
    /\ start_state \in visited => period = 1023

\* C2 witness: the loop has just stopped after 1023 distinct register values
C2_Witness ==
    /\ start_state = RefSeed
    /\ pc = "plaintext"
    /\ period = 1023
    /\ Cardinality(visited) = 1023

\* C3: for every start state in 1..1023 the loop stops after at least 1 and
\* at most 1023 iterations, with the register back at the start state; while
\* it runs the count is below 1023, so it is never cut short.
C3_Terminates ==
    start_state \in 1 .. 1023 =>
        /\ pc = "loop" => period <= 1022 /\ period < MaxSteps
        /\ pc # "loop" => period \in 1 .. 1023 /\ lfsr = start_state

\* C3 witness: a start state other than the script's own has come back
C3_Witness ==
    /\ start_state \in 1 .. 1023
    /\ start_state # RefSeed
    /\ pc = "plaintext"
    /\ lfsr = start_state
    /\ period = 1023

\* C4: an iteration on a 10-bit register r computes f = bit 0 XOR bit 7 of r
\* (before the shift), leaves the register at (r >> 1) with f at bit 9, and
\* the character it appends to the keystream is f.
C4_StepLaw ==
    [][(pc = "loop" /\ lfsr < 1024) =>
          LET f == (Bit(lfsr, 0) + Bit(lfsr, 7)) % 2
          IN  /\ lfsr' = (lfsr \div 2) + 512 * f
              /\ \A j \in 0 .. 8 : Bit(lfsr', j) = Bit(lfsr, j + 1)
              /\ Bit(lfsr', 9) = f
              /\ period < 512 =>
                    /\ Len(bitstring') = Len(bitstring) + 1
                    /\ Digit(bitstring'[Len(bitstring')]) = f
                    /\ Digit(bitstring'[Len(bitstring')]) = Bit(lfsr', 9)]_vars

\* C4 witness: an iteration has inserted a feedback bit 1 into a register
\* whose other bits are not all zero
C4_Witness ==
    /\ start_state < 1024
    /\ pc = "loop"
    /\ period \in 1 .. 511
    /\ Bit(lfsr, 9) = 1
    /\ lfsr > 512
    /\ bitstring[Len(bitstring)] = "1"

\* C5: a start state that is zero or wider than 10 bits is rejected: no
\* iteration is taken, no period is counted and no keystream bit is captured.
C5_InvalidSeedRejected ==
    (start_state = 0 \/ start_state > 1023) =>
        /\ period = 0
        /\ bitstring = <<>>
        /\ lfsr = start_state
        /\ pc = "loop"

\* C6: once line 30 has run, it has failed without assigning any output
\* exactly when fewer keystream bits were captured than the plaintext is long
\* (one bit short included), and has succeeded otherwise (equal lengths
\* included).
C6_ExhaustionBoundary ==
    pc \in AfterEncrypt =>
        IF Len(bitstring) < Len(plaintext)
        THEN /\ pc = "IndexError"
             /\ ciphertext = Unassigned
             /\ decrypttext = Unassigned
        ELSE /\ pc # "IndexError"
             /\ ciphertext # Unassigned
             /\ Len(ciphertext) = Len(plaintext)

\* C6 witness: the keystream is exactly one bit shorter than the plaintext
\* and the encryption has failed
C6_Witness ==
    /\ pc = "IndexError"
    /\ start_state \in 1 .. 1023
    /\ Len(bitstring) = Len(plaintext) - 1
    /\ ciphertext = Unassigned

\* C7: for every start state in 1..1023 the register stays in 1..1023.
C7_RegisterRange ==
    start_state \in 1 .. 1023 => lfsr \in 1 .. 1023

\* C7 witness: the register holds the largest 10-bit value after some steps
C7_Witness ==
    /\ start_state \in 1 .. 1023
    /\ period > 0
    /\ lfsr = 1023

\* C8 as stated: in the end-to-end scenario the plaintext, the key, the
\* ciphertext and the decrypted text are 34 bits long.
C8_Lengths34 ==
    plaintext = RefPlaintext =>
        /\ Len(plaintext) = 34
        /\ key # Unassigned => key = SubSeq(bitstring, 1, 34)
        /\ ciphertext # Unassigned => Len(ciphertext) = 34
        /\ decrypttext # Unassigned => Len(decrypttext) = 34

\* C8 amended: in the end-to-end scenario the plaintext is 32 bits long, the
\* key is exactly the first 32 bits of the keystream, and the ciphertext and
\* the decrypted text are 32 bits long; every statement of the script runs.
C8_Lengths32 ==
    plaintext = RefPlaintext =>
        /\ Len(plaintext) = 32
        /\ pc \notin {"IndexError", "AssertionError"}
        /\ key # Unassigned => key = SubSeq(bitstring, 1, 32)
        /\ pc \in {"decrypt", "assert", "done"} => Len(ciphertext) = 32
        /\ pc \in {"assert", "done"} => Len(decrypttext) = 32

\* C8 witness: the end-to-end scenario has run to its end
C8_Witness ==
    /\ start_state = RefSeed
    /\ plaintext = RefPlaintext
    /\ pc = "done"
    /\ Len(key) = 32

\* C9: every iteration counts one step and shifts the register; while fewer
\* than 512 bits are captured it appends its feedback bit at the end of the
\* keystream, leaving the earlier bits as they were; later iterations leave
\* the keystream unchanged; no other statement changes it; so its length is
\* always min(steps, 512).
C9_AppendOnly ==
    [][/\ Len(bitstring') = (IF period' < 512 THEN period' ELSE 512)
       /\ SubSeq(bitstring', 1, Len(bitstring)) = bitstring
       /\ pc # "loop" => bitstring' = bitstring /\ period' = period
       /\ pc = "loop" =>
             /\ period' = period + 1
             /\ lfsr' % 512 = (lfsr \div 2) % 512
             /\ IF period < 512
                THEN bitstring' =
                        Append(bitstring,
                               IF (Bit(lfsr, 0) + Bit(lfsr, 7)) % 2 = 1
                               THEN "1" ELSE "0")
                ELSE bitstring' = bitstring]_vars

\* C9 witness: more than 512 iterations have run and 512 bits are captured
C9_Witness ==
    /\ pc = "loop"
    /\ period > 512
    /\ lfsr # start_state
    /\ Len(bitstring) = 512

\* keystream bit n is the XOR of keystream bits n-10 and n-3
LinearRecurrence(n) ==
    Digit(bitstring[n]) = (Digit(bitstring[n - 10]) + Digit(bitstring[n - 3])) % 2

\* C10: for every start state in 0..1023, each captured keystream bit n > 10
\* is the XOR of bits n-10 and n-3 (checked for the newest bit while the
\* keystream grows and for all bits when the loop has stopped), and after
\* n >= 10 captured steps bit j of the register is keystream bit n-9+j.
C10_Recurrence ==
    start_state \in 0 .. 1023 =>
        /\ (pc = "loop" /\ period \in 11 .. 512) => LinearRecurrence(period)
        /\ pc = "plaintext" =>
              \A n \in 11 .. Len(bitstring) : LinearRecurrence(n)
        /\ (period \in 10 .. 512) =>
              \A j \in 0 .. 9 : Bit(lfsr, j) = Digit(bitstring[period - 9 + j])

\* C10 witness: a bit beyond the tenth has been captured and it is the XOR of
\* two set bits or of two different bits
C10_Witness ==
    /\ start_state \in 1 .. 1023
    /\ pc = "loop"
    /\ period \in 11 .. 512
    /\ bitstring[period - 10] = "1"
    /\ bitstring[period - 3] = "1"
    /\ bitstring[period] = "0"

====
